---- MODULE Spec2Model ----
(***************************************************************************)
(* The download engines of this repository and their progress file.        *)
(*                                                                         *)
(* Spec: the file-level engine of src/download_drive_api.py, repeated      *)
(* invocations of main() over a remote folder tree, the progress file      *)
(* data/download_progress.json and the local files under pdfs/.  A run is  *)
(* a sequence of steps of main() and of the (recursive) process_folder();  *)
(* the recursion is the variable stack, one frame per active call, each    *)
(* frame with its own local downloaded_ids.                                *)
(*                                                                         *)
(* SpecColliding: the same engine over folder trees in which two files    *)
(* have the same local path.                                               *)
(*                                                                         *)
(* SpecStore: load_progress, save_progress, --status, --reset and the      *)
(* checks main() makes before a run, started from the progress files a     *)
(* run can find.                                                           *)
(*                                                                         *)
(* SpecFolders: the folder-level engine of src/fetch_ect_pdfs.py,          *)
(* download_pdfs() with its progress_lock, progress file and errors file,  *)
(* and runs of the file-level engine on the same progress file in between. *)
(***************************************************************************)
EXTENDS Integers, Sequences, FiniteSets, TLC

\* ------------------------------------------------------------------ bounds

\* invocations of main() in one behaviour
MaxRuns == 3
\* requests (listing or transfer) that do not succeed, in one behaviour
MaxFaults == 2
\* local files removed by the user between two runs, in one behaviour
MaxLocalChanges == 1
\* children returned by one page of files().list
PageSize == 2

\* ------------------------------------------------------------ remote trees

File(id, name) == [id |-> id, name |-> name, folder |-> FALSE]
Folder(id, name) == [id |-> id, name |-> name, folder |-> TRUE]

\* one folder of three files, listed in two pages
Flat ==
  [roots |-> << [id |-> "R1", province |-> "p1"] >>,
   children |-> [f \in {"R1"} |-> << File("a", "a.pdf"), File("b", "b.pdf"), File("c", "c.pdf") >>]]

\* a sub-folder listed before a file of its parent
SubFirst ==
  [roots |-> << [id |-> "R1", province |-> "p1"] >>,
   children |-> [f \in {"R1", "S"} |->
      IF f = "R1" THEN << Folder("S", "s"), File("b", "b.pdf") >>
                  ELSE << File("a", "a.pdf") >>]]

\* two root folders, the first with a sub-folder
TwoRoots ==
  [roots |-> << [id |-> "R1", province |-> "p1"], [id |-> "R2", province |-> "p2"] >>,
   children |-> [f \in {"R1", "R2", "S"} |->
      CASE f = "R1" -> << Folder("S", "s") >>
        [] f = "S"  -> << File("a", "a.pdf") >>
        [] OTHER    -> << File("b", "b.pdf") >>]]

Trees == {Flat, SubFirst, TwoRoots}

\* the ids of the files (not folders) of a tree
FileIds(d) ==
  UNION { { d.children[f][i].id : i \in { j \in DOMAIN (d.children[f]) : ~d.children[f][j].folder } }
          : f \in DOMAIN (d.children) }

\* --------------------------------------------------------------- the state

VARIABLES
  drive,          \* the remote tree behind the Drive API (fixed in a behaviour)
  disk,           \* local files under PDF_DIR: path -> "empty" | "partial" | "complete"
  PROGRESS_FILE,  \* data/download_progress.json
  progress,       \* main()'s in-memory progress dict
  stats,          \* main()'s counters
  stack,          \* active process_folder() calls, innermost last
  rootIdx,        \* position of main()'s loop over folders
  pc,             \* where the run is
  res,            \* what download_file() returned: [success, error]
  runNo,          \* invocations of main() so far
  faults,         \* failed requests so far
  localChanges,   \* local files removed by the user so far
  interrupted,    \* some run so far ended by KeyboardInterrupt
  attempted,      \* ids for which this run issued requests.get
  transferred,    \* ids for which download_file() returned success in this run
  startDownloaded,\* progress["downloaded"] as loaded when this run started
  startDisk,      \* the local files when this run started
  rate_limited,   \* this run classified a download outcome as rate-limited
  failedIn,       \* where the last call of download_file failed: "request" | "write"
  listFailed,     \* a listing request of this run failed
  progress_lock,  \* fetch_ect_pdfs.progress_lock: "free" | "held"
  ERRORS_FILE,    \* data/download_errors.json
  gd_pc,          \* where download_pdfs() of fetch_ect_pdfs.py is
  gd_progress,    \* its in-memory progress dict
  gd_errors,      \* its in-memory errors["errors"]
  gd_tasks,       \* the folders download_pdfs() set out to download
  gd_task,        \* position of its loop over tasks
  gd_result,      \* what download_folder_with_gdown returned: [downloaded, failed]
  gd_totals,      \* total_downloaded, total_failed, total_skipped
  cmd             \* the arguments and environment of the invocation of main()

vars == << drive, disk, PROGRESS_FILE, progress, stats, stack, rootIdx, pc, res,
           runNo, faults, localChanges, interrupted, attempted, transferred,
           startDownloaded, startDisk, rate_limited, failedIn, listFailed,
           progress_lock, ERRORS_FILE, gd_pc, gd_progress, gd_errors, gd_tasks,
           gd_task, gd_result, gd_totals, cmd >>

\* the variables of the folder-level engine (fetch_ect_pdfs.py)
gvars == << progress_lock, ERRORS_FILE, gd_pc, gd_progress, gd_errors, gd_tasks,
            gd_task, gd_result, gd_totals >>

\* the variables of the file-level engine (download_drive_api.py) other than
\* the progress file and the counters of runs and faults
dvars == << drive, disk, progress, stats, stack, rootIdx, pc, res, localChanges, cmd,
            interrupted, attempted, transferred, startDownloaded, startDisk,
            rate_limited, failedIn, listFailed >>

\* ------------------------------------------------------ invocations of main

\* --reset, --status or a run; is GOOGLE_API_KEY set, is the index file
\* there, is --folder given
Commands ==
  { [command |-> c, api_key |-> k, index |-> i, folder |-> f]
    : c \in {"run", "status", "reset"}, k \in BOOLEAN, i \in BOOLEAN, f \in BOOLEAN }

\* a run over the folders of the index, the API key set
NoCmd == [command |-> "run", api_key |-> TRUE, index |-> TRUE, folder |-> FALSE]

\* ------------------------------------------------------------ local files

Exists(d, p) == p \in DOMAIN d
\* output_path.exists() and output_path.stat().st_size > 0
ExistsNonEmpty(d, p) == p \in DOMAIN d /\ d[p] # "empty"
\* open(output_path, "wb") and the writes that follow
WriteFile(d, p, v) == [q \in DOMAIN d \cup {p} |-> IF q = p THEN v ELSE d[q]]
\* output_path.unlink(missing_ok=True)
Unlink(d, p) == [q \in DOMAIN d \ {p} |-> d[q]]

\* ---------------------------------------------------------- progress store

\* progress["failed"] is a dict keyed by id: a set of entries, one per id at most
ZeroProgress == [downloaded |-> {}, failed |-> {}, errors |-> << >>]

\* list(downloaded_ids): the members of a set, one after the other
RECURSIVE SetToSeq(_)
SetToSeq(S) ==
  IF S = {} THEN << >>
  ELSE LET x == CHOOSE y \in S : TRUE IN << x >> \o SetToSeq(S \ {x})

\* set(progress.get("downloaded", []))
Range(s) == { s[i] : i \in DOMAIN s }

\* a dump that writes "failed" as the array of its keys (the older format)
json_dump_FailedAsList(p) ==
  [downloaded |-> SetToSeq(p.downloaded),
   failed |-> [is_list |-> TRUE, entries |-> p.failed],
   errors |-> p.errors]

\* json.dump(progress, f): "downloaded" is an array, "failed" an object, "errors"
\* an array; is_list tells a "failed" that is an array (the older format)
json_dump(p) ==
  [downloaded |-> SetToSeq(p.downloaded),
   failed |-> [is_list |-> FALSE, entries |-> p.failed],
   errors |-> p.errors]

AbsentFile == [kind |-> "absent", data |-> json_dump(ZeroProgress)]

\* the file after open(PROGRESS_FILE, "w") and a part of json.dump: not a JSON text
TornFile == [kind |-> "torn", data |-> json_dump(ZeroProgress)]

\* json.load raises on this file
Unreadable(file) == file.kind = "torn"

\* lines 62-67 without the isinstance branch
load_progress_AsStored(file) ==
  IF file.kind = "json"
    THEN [downloaded |-> Range(file.data.downloaded),
          failed |-> file.data.failed.entries,
          errors |-> file.data.errors]
    ELSE ZeroProgress

\* what load_progress returns when json.load does not raise
load_progress(file) ==
  IF file.kind = "json"
    THEN [downloaded |-> Range(file.data.downloaded),
          failed |-> IF file.data.failed.is_list THEN {} ELSE file.data.failed.entries,
          errors |-> file.data.errors]
    ELSE ZeroProgress

save_progress(p) == [kind |-> "json", data |-> json_dump(p)]

\* item_id in progress["failed"]
InFailed(failed, id) == \E e \in failed : e.id = id

\* del progress["failed"][item_id]
DelFailed(failed, id) == { e \in failed : e.id # id }

\* lines 191-195 without the assignment
SetFailed_Drop(failed, id, path, province, error) == failed

\* progress["failed"][item_id] = {"path": ..., "province": ..., "error": ...}
SetFailed(failed, id, path, province, error) ==
  DelFailed(failed, id) \cup { [id |-> id, path |-> path, province |-> province, error |-> error] }

\* ------------------------------------------------------------ download_file

NoRes == [success |-> FALSE, error |-> ""]

Failure(reason) == [success |-> FALSE, error |-> reason]

\* the reason download_file returns for a response status other than 200
StatusReason(code) ==
  CASE code = "403" -> "Access denied"
    [] code = "404" -> "Not found"
    [] code = "429" -> "Rate limited"
    [] OTHER        -> "HTTP 500"

\* "rate" in error.lower(), over the reasons above
HasRate(error) == error = "Rate limited"

\* the handlers of lines 105-110 without their unlink
OnTransferException_KeepFile(d, p, reason) == [disk |-> d, res |-> Failure(reason)]

\* except requests.Timeout / except Exception: unlink the output, report failure
OnTransferException(d, p, reason) == [disk |-> Unlink(d, p), res |-> Failure(reason)]

\* the end of the stream without the check of the size
OnStreamEnd_NoCheck(d, p) == [disk |-> d, res |-> [success |-> TRUE, error |-> ""]]

\* the end of the stream: the check of lines 91-95
OnStreamEnd(d, p) ==
  IF ExistsNonEmpty(d, p)
    THEN [disk |-> WriteFile(d, p, "complete"), res |-> [success |-> TRUE, error |-> ""]]
    ELSE [disk |-> Unlink(d, p), res |-> Failure("Empty file")]

\* ----------------------------------------------------------- process_folder

ZeroStats == [total |-> 0, downloaded |-> 0, skipped |-> 0, failed |-> 0]

\* the locals of a call of process_folder; downloaded_ids is line 123
NewFrame(folder_id, province, path, prog) ==
  [folder_id |-> folder_id, province |-> province, path |-> path,
   downloaded_ids |-> prog.downloaded, idx |-> 1, avail |-> 0]

Top(st) == st[Len(st)]

Pop(st) == SubSeq(st, 1, Len(st) - 1)

SetTop(st, f) == [st EXCEPT ![Len(st)] = f]

\* the for loop moves to the next item of the innermost call
NextItem(st) == [st EXCEPT ![Len(st)].idx = @ + 1]

\* the innermost call returns; its caller, if a process_folder, moves on
Return(st) == IF Len(st) > 1 THEN NextItem(Pop(st)) ELSE << >>

CurItem(f) == drive.children[f.folder_id][f.idx]

\* item_path = f"{path}/{item_name}" if path else item_name
ItemPath(f) == Append(f.path, CurItem(f).name)

\* output_path = PDF_DIR / province / item_path
OutputPath(f) == << f.province >> \o ItemPath(f)

\* where control goes once the innermost call's current item is settled:
\* the next item, the next page, the caller, or main()'s next root folder
RECURSIVE Continue(_, _, _)
Continue(st, ri, prog) ==
  IF st = << >>
    THEN IF ri < Len(drive.roots)
           THEN [stack |-> << NewFrame(drive.roots[ri + 1].id, drive.roots[ri + 1].province,
                                       << >>, prog) >>,
                 rootIdx |-> ri + 1, pc |-> "list"]
           ELSE [stack |-> << >>, rootIdx |-> ri, pc |-> "done"]
    ELSE LET f == Top(st) IN
         IF f.idx <= f.avail THEN [stack |-> st, rootIdx |-> ri, pc |-> "item"]
         ELSE IF f.avail < Len(drive.children[f.folder_id])
           THEN [stack |-> st, rootIdx |-> ri, pc |-> "list"]
           ELSE Continue(Return(st), ri, prog)

\* the entry the handler of line 205 appends for the item of frame f
ItemErrorEntry(f, msg) ==
  [handler |-> "item", folder_id |-> f.folder_id, province |-> f.province,
   error |-> msg, item |-> CurItem(f).id]

\* the entry the handlers of lines 224 and 236 append
ListErrorEntry(f, msg) ==
  [handler |-> "list", folder_id |-> f.folder_id, province |-> f.province,
   error |-> msg, item |-> ""]

LogError(prog, entry) == [prog EXCEPT !.errors = Append(@, entry)]

Running == pc \in {"list", "item", "req", "write", "record"}

Stopped == pc \in {"idle", "done", "interrupted", "aborted", "crashed"}

\* ------------------------------------------- fetch_ect_pdfs.py: the store

\* the folders of the index file
IndexFolders == << "F1", "F2", "F3" >>

\* what load_progress of fetch_ect_pdfs.py returns without a file (line 281)
ZeroFolderProgress == [completed_folders |-> << >>]

\* what load_errors returns without a file (line 297)
AbsentErrors == [kind |-> "absent", errors |-> << >>]

ZeroResult == [downloaded |-> 0, failed |-> 0]

ZeroTotals == [downloaded |-> 0, failed |-> 0, skipped |-> 0]

\* the folder-level engine before its first run
InitFolderEngine ==
  /\ progress_lock = "free"
  /\ ERRORS_FILE = AbsentErrors
  /\ gd_pc = "idle"
  /\ gd_progress = ZeroFolderProgress
  /\ gd_errors = << >>
  /\ gd_tasks = << >>
  /\ gd_task = 1
  /\ gd_result = ZeroResult
  /\ gd_totals = ZeroTotals

\* ------------------------------------------------------------------- main

\* the state before the first invocation, the remote tree apart
InitLocal ==
  /\ disk = << >>
  /\ PROGRESS_FILE = AbsentFile
  /\ progress = ZeroProgress
  /\ stats = ZeroStats
  /\ stack = << >>
  /\ rootIdx = 1
  /\ pc = "idle"
  /\ res = NoRes
  /\ runNo = 0
  /\ faults = 0
  /\ localChanges = 0
  /\ interrupted = FALSE
  /\ attempted = {}
  /\ transferred = {}
  /\ startDownloaded = {}
  /\ startDisk = << >>
  /\ rate_limited = FALSE
  /\ failedIn = ""
  /\ listFailed = FALSE
  /\ cmd = NoCmd
  /\ InitFolderEngine

Init ==
  /\ drive \in Trees
  /\ InitLocal

\* main() up to the first call of process_folder (lines 264, 344-354)
StartRun ==
  /\ Stopped
  /\ runNo < MaxRuns
  /\ ~Unreadable(PROGRESS_FILE)
  /\ LET p == load_progress(PROGRESS_FILE) IN
       /\ progress' = p
       /\ stack' = << NewFrame(drive.roots[1].id, drive.roots[1].province, << >>, p) >>
       /\ startDownloaded' = p.downloaded
  /\ stats' = ZeroStats
  /\ rootIdx' = 1
  /\ pc' = "list"
  /\ res' = NoRes
  /\ runNo' = runNo + 1
  /\ attempted' = {}
  /\ transferred' = {}
  /\ startDisk' = disk
  /\ rate_limited' = FALSE
  /\ failedIn' = ""
  /\ listFailed' = FALSE
  /\ UNCHANGED << drive, disk, PROGRESS_FILE, faults, localChanges, interrupted >>
  /\ UNCHANGED << gvars, cmd >>

\* main() when json.load raises in load_progress (line 264): no handler, the
\* process ends with a traceback before anything else is done
StartRunCrash ==
  /\ Stopped
  /\ runNo < MaxRuns
  /\ Unreadable(PROGRESS_FILE)
  /\ pc' = "crashed"
  /\ runNo' = runNo + 1
  /\ progress' = ZeroProgress
  /\ stats' = ZeroStats
  /\ stack' = << >>
  /\ rootIdx' = 1
  /\ res' = NoRes
  /\ attempted' = {}
  /\ transferred' = {}
  /\ startDownloaded' = {}
  /\ startDisk' = disk
  /\ rate_limited' = FALSE
  /\ failedIn' = ""
  /\ listFailed' = FALSE
  /\ UNCHANGED << drive, disk, PROGRESS_FILE, faults, localChanges, interrupted >>
  /\ UNCHANGED << gvars, cmd >>

\* the handler of line 205 without its save_progress (line 214)
ItemHandler_NoSave(st, prog, sts, ri, msg) ==
  LET p2 == LogError(prog, ItemErrorEntry(Top(st), msg))
      c  == Continue(NextItem(st), ri, p2)
  IN  [progress |-> p2, file |-> PROGRESS_FILE,
       stats |-> [sts EXCEPT !.failed = @ + 1],
       stack |-> c.stack, rootIdx |-> c.rootIdx, pc |-> c.pc]

\* what the handler of line 205 does with an exception raised in the item of
\* the innermost frame of st: log it, save, count a failure, go on
ItemHandler(st, prog, sts, ri, msg) ==
  LET p2 == LogError(prog, ItemErrorEntry(Top(st), msg))
      c  == Continue(NextItem(st), ri, p2)
  IN  [progress |-> p2, file |-> save_progress(p2),
       stats |-> [sts EXCEPT !.failed = @ + 1],
       stack |-> c.stack, rootIdx |-> c.rootIdx, pc |-> c.pc]

\* an exception leaves the innermost call of st (lines 227 and 238): the
\* calling process_folder catches it at line 205, main() at line 358
Propagate(st, prog, sts, ri, file, msg) ==
  IF Len(st) > 1
    THEN ItemHandler(Pop(st), prog, sts, ri, msg)
    ELSE [progress |-> prog, file |-> file, stats |-> sts,
          stack |-> << >>, rootIdx |-> ri, pc |-> "aborted"]

\* the break of lines 235 and 247 replaced by a raise
OnListError_Abort(st, ri, prog) == [stack |-> << >>, rootIdx |-> ri, pc |-> "aborted"]

\* the break of lines 235 and 247: the call returns, its caller goes on
OnListError(st, ri, prog) == Continue(Return(st), ri, prog)

\* one files().list request of the innermost call with the given outcome
\* (lines 132-143, 220-247); HttpError 500 stands for the errors that are not
\* a rate limit
ListStep(outcome) ==
  /\ pc = "list"
  /\ LET f == Top(stack)
         n == Len(drive.children[f.folder_id])
     IN   IF outcome = "ok"
            THEN LET f2 == [f EXCEPT !.avail = IF @ + PageSize < n THEN @ + PageSize ELSE n]
                     c  == Continue(SetTop(stack, f2), rootIdx, progress)
                 IN  /\ stack' = c.stack
                     /\ rootIdx' = c.rootIdx
                     /\ pc' = c.pc
                     /\ UNCHANGED << progress, PROGRESS_FILE, stats, faults, listFailed >>
          ELSE IF outcome = "HttpError 429"
            THEN LET r == Propagate(stack, progress, stats, rootIdx, PROGRESS_FILE, "Rate limited")
                 IN  /\ stack' = r.stack
                     /\ rootIdx' = r.rootIdx
                     /\ pc' = r.pc
                     /\ progress' = r.progress
                     /\ PROGRESS_FILE' = r.file
                     /\ stats' = r.stats
                     /\ faults' = faults + 1
                     /\ listFailed' = TRUE
            ELSE LET p2 == LogError(progress, ListErrorEntry(f, outcome))
                     c  == OnListError(stack, rootIdx, p2)
                 IN  /\ progress' = p2
                     /\ PROGRESS_FILE' = save_progress(p2)
                     /\ stack' = c.stack
                     /\ rootIdx' = c.rootIdx
                     /\ pc' = c.pc
                     /\ faults' = faults + 1
                     /\ listFailed' = TRUE
                     /\ UNCHANGED stats
  /\ UNCHANGED << drive, disk, res, runNo, localChanges, interrupted, attempted,
                  transferred, startDownloaded, startDisk, rate_limited, failedIn >>
  /\ UNCHANGED << gvars, cmd >>

\* the while loop of process_folder asks for the next page
ListPage ==
  \E outcome \in {"ok"} \cup (IF faults < MaxFaults
                                THEN {"HttpError 429", "HttpError 500"}
                                ELSE {}) :
    ListStep(outcome)

\* line 162 without the look-up in downloaded_ids
AlreadyDownloaded_Never(f, id) == FALSE

\* item_id in downloaded_ids (line 162)
AlreadyDownloaded(f, id) == id \in f.downloaded_ids

\* line 169 without the existence check
OnDisk_Never(d, p) == FALSE

\* the existence check of line 169
OnDisk(d, p) == ExistsNonEmpty(d, p)

\* one item of the for loop, up to the call of download_file (lines 145-177)
ProcessItem ==
  /\ pc = "item"
  /\ LET f  == Top(stack)
         it == CurItem(f)
     IN IF it.folder
          THEN /\ stack' = Append(stack, NewFrame(it.id, f.province, ItemPath(f), progress))
               /\ pc' = "list"
               /\ UNCHANGED << progress, PROGRESS_FILE, stats, rootIdx >>
        ELSE IF AlreadyDownloaded(f, it.id)
          THEN LET c == Continue(NextItem(stack), rootIdx, progress)
               IN  /\ stats' = [stats EXCEPT !.total = @ + 1, !.skipped = @ + 1]
                   /\ stack' = c.stack
                   /\ rootIdx' = c.rootIdx
                   /\ pc' = c.pc
                   /\ UNCHANGED << progress, PROGRESS_FILE >>
        ELSE IF OnDisk(disk, OutputPath(f))
          THEN LET f2 == [f EXCEPT !.downloaded_ids = @ \cup {it.id}]
                   p2 == [progress EXCEPT !.downloaded = f2.downloaded_ids]
                   c  == Continue(NextItem(SetTop(stack, f2)), rootIdx, p2)
               IN  /\ progress' = p2
                   /\ PROGRESS_FILE' = save_progress(p2)
                   /\ stats' = [stats EXCEPT !.total = @ + 1, !.skipped = @ + 1]
                   /\ stack' = c.stack
                   /\ rootIdx' = c.rootIdx
                   /\ pc' = c.pc
          ELSE /\ stats' = [stats EXCEPT !.total = @ + 1]
               /\ pc' = "req"
               /\ UNCHANGED << progress, PROGRESS_FILE, stack, rootIdx >>
  /\ UNCHANGED << drive, disk, res, runNo, faults, localChanges, interrupted, attempted,
                  transferred, startDownloaded, startDisk, rate_limited, failedIn,
                  listFailed >>
  /\ UNCHANGED << gvars, cmd >>

\* download_file up to the response: mkdir (line 79), requests.get and the
\* branch on its status (lines 83-87, 96-110). 403 stands for the statuses that
\* are neither 200 nor 429, Timeout for the exceptions of requests.get, OSError
\* for an exception of mkdir, which is raised before the try of line 83 and
\* reaches the handler of line 205.
Request ==
  /\ pc = "req"
  /\ LET f == Top(stack)
         p == OutputPath(f)
     IN \E outcome \in {"200"} \cup (IF faults < MaxFaults
                                       THEN {"403", "429", "Timeout", "OSError"}
                                       ELSE {}) :
          IF outcome = "OSError"
            THEN LET r == ItemHandler(stack, progress, stats, rootIdx, outcome)
                 IN  /\ progress' = r.progress
                     /\ PROGRESS_FILE' = r.file
                     /\ stats' = r.stats
                     /\ stack' = r.stack
                     /\ rootIdx' = r.rootIdx
                     /\ pc' = r.pc
                     /\ faults' = faults + 1
                     /\ UNCHANGED << disk, res, attempted, rate_limited, failedIn >>
          ELSE
          /\ attempted' = attempted \cup {CurItem(f).id}
          /\ UNCHANGED << progress, PROGRESS_FILE, stats, stack, rootIdx >>
          /\ IF outcome = "200"
               THEN /\ disk' = WriteFile(disk, p, "empty")
                    /\ pc' = "write"
                    /\ UNCHANGED << res, faults, rate_limited, failedIn >>
             ELSE IF outcome \in {"Timeout", "Exception"}
               THEN LET r == OnTransferException(disk, p, outcome)
                    IN  /\ disk' = r.disk
                        /\ res' = r.res
                        /\ pc' = "record"
                        /\ faults' = faults + 1
                        /\ failedIn' = "request"
                        /\ UNCHANGED rate_limited
               ELSE /\ res' = Failure(StatusReason(outcome))
                    /\ pc' = "record"
                    /\ faults' = faults + 1
                    /\ failedIn' = "request"
                    /\ rate_limited' = (rate_limited \/ outcome = "429")
                    /\ UNCHANGED disk
  /\ UNCHANGED << drive, runNo, localChanges, interrupted, transferred, startDownloaded,
                  startDisk, listFailed >>
  /\ UNCHANGED << gvars, cmd >>

\* download_file: the streaming loop and the check after it (lines 87-95, 105-110)
Write ==
  /\ pc = "write"
  /\ LET f == Top(stack)
         p == OutputPath(f)
     IN \E outcome \in {"chunk", "end"} \cup (IF faults < MaxFaults
                                                THEN {"empty", "Timeout"}
                                                ELSE {}) :
          IF outcome = "chunk"
            THEN /\ disk[p] = "empty"
                 /\ disk' = WriteFile(disk, p, "partial")
                 /\ UNCHANGED << pc, res, faults, transferred, failedIn >>
          ELSE IF outcome = "end"
            THEN /\ disk[p] = "partial"
                 /\ LET r == OnStreamEnd(disk, p)
                    IN  /\ disk' = r.disk
                        /\ res' = r.res
                 /\ pc' = "record"
                 /\ transferred' = transferred \cup {CurItem(f).id}
                 /\ UNCHANGED << faults, failedIn >>
          ELSE IF outcome = "empty"
            THEN /\ disk[p] = "empty"
                 /\ LET r == OnStreamEnd(disk, p)
                    IN  /\ disk' = r.disk
                        /\ res' = r.res
                 /\ pc' = "record"
                 /\ faults' = faults + 1
                 /\ failedIn' = "check"
                 /\ UNCHANGED transferred
            ELSE LET r == OnTransferException(disk, p, outcome)
                 IN  /\ disk' = r.disk
                     /\ res' = r.res
                     /\ pc' = "record"
                     /\ faults' = faults + 1
                     /\ failedIn' = "write"
                     /\ UNCHANGED transferred
  /\ UNCHANGED << drive, PROGRESS_FILE, progress, stats, stack, rootIdx, runNo,
                  localChanges, interrupted, attempted, startDownloaded, startDisk,
                  rate_limited, listFailed >>
  /\ UNCHANGED << gvars, cmd >>

\* what process_folder does with the result of download_file (lines 180-203)
Record ==
  /\ pc = "record"
  /\ LET f  == Top(stack)
         id == CurItem(f).id
     IN IF res.success
          THEN LET f2 == [f EXCEPT !.downloaded_ids = @ \cup {id}]
                   p2 == [progress EXCEPT !.failed = DelFailed(@, id),
                                          !.downloaded = f2.downloaded_ids]
                   c  == Continue(NextItem(SetTop(stack, f2)), rootIdx, p2)
               IN  /\ progress' = p2
                   /\ PROGRESS_FILE' = save_progress(p2)
                   /\ stats' = [stats EXCEPT !.downloaded = @ + 1]
                   /\ stack' = c.stack
                   /\ rootIdx' = c.rootIdx
                   /\ pc' = c.pc
        ELSE LET p1 == [progress EXCEPT
                          !.failed = SetFailed(@, id, ItemPath(f), f.province, res.error)]
                 s1 == [stats EXCEPT !.failed = @ + 1]
             IN IF HasRate(res.error)
                  THEN LET r == ItemHandler(stack, p1, s1, rootIdx, "Rate limited")
                       IN  /\ progress' = r.progress
                           /\ PROGRESS_FILE' = r.file
                           /\ stats' = r.stats
                           /\ stack' = r.stack
                           /\ rootIdx' = r.rootIdx
                           /\ pc' = r.pc
                  ELSE LET p2 == [p1 EXCEPT !.downloaded = f.downloaded_ids]
                           c  == Continue(NextItem(stack), rootIdx, p2)
                       IN  /\ progress' = p2
                           /\ PROGRESS_FILE' = save_progress(p2)
                           /\ stats' = s1
                           /\ stack' = c.stack
                           /\ rootIdx' = c.rootIdx
                           /\ pc' = c.pc
  /\ res' = NoRes
  /\ failedIn' = ""
  /\ UNCHANGED << drive, disk, runNo, faults, localChanges, interrupted, attempted,
                  transferred, startDownloaded, startDisk, rate_limited, listFailed >>
  /\ UNCHANGED << gvars, cmd >>

\* KeyboardInterrupt at any point of the loop of main() (lines 356-357):
\* no handler below main() catches it, main() prints and saves nothing
Interrupt ==
  /\ Running
  /\ pc' = "interrupted"
  /\ stack' = << >>
  /\ res' = NoRes
  /\ failedIn' = ""
  /\ interrupted' = TRUE
  /\ UNCHANGED << drive, disk, PROGRESS_FILE, progress, stats, rootIdx, runNo, faults,
                  localChanges, attempted, transferred, startDownloaded, startDisk,
                  rate_limited, listFailed >>
  /\ UNCHANGED << gvars, cmd >>

\* KeyboardInterrupt inside save_progress, between open(PROGRESS_FILE, "w") and
\* the end of json.dump (lines 72-74), in the save of line 172, 184, 201 or 214:
\* the statements before the save have run, the file is left cut short
InterruptSave ==
  /\ \/ pc = "record"
     \/ /\ pc = "item"
        /\ ~CurItem(Top(stack)).folder
        /\ ~AlreadyDownloaded(Top(stack), CurItem(Top(stack)).id)
        /\ OnDisk(disk, OutputPath(Top(stack)))
  /\ LET f  == Top(stack)
         id == CurItem(f).id
     IN IF pc = "item"
          THEN /\ progress' = [progress EXCEPT !.downloaded = f.downloaded_ids \cup {id}]
               /\ stats' = [stats EXCEPT !.total = @ + 1]
        ELSE IF res.success
          THEN /\ progress' = [progress EXCEPT !.failed = DelFailed(@, id),
                                               !.downloaded = f.downloaded_ids \cup {id}]
               /\ stats' = [stats EXCEPT !.downloaded = @ + 1]
        ELSE LET p1 == [progress EXCEPT
                          !.failed = SetFailed(@, id, ItemPath(f), f.province, res.error)]
             IN /\ progress' = IF HasRate(res.error)
                                 THEN LogError(p1, ItemErrorEntry(f, "Rate limited"))
                                 ELSE [p1 EXCEPT !.downloaded = f.downloaded_ids]
                /\ stats' = [stats EXCEPT !.failed = @ + 1]
  /\ PROGRESS_FILE' = TornFile
  /\ pc' = "interrupted"
  /\ stack' = << >>
  /\ res' = NoRes
  /\ failedIn' = ""
  /\ interrupted' = TRUE
  /\ UNCHANGED << drive, disk, rootIdx, runNo, faults, localChanges, attempted,
                  transferred, startDownloaded, startDisk, rate_limited, listFailed >>
  /\ UNCHANGED << gvars, cmd >>

\* between two runs the user removes a file under PDF_DIR
RemoveLocalFile ==
  /\ Stopped
  /\ localChanges < MaxLocalChanges
  /\ \E p \in DOMAIN disk : disk' = Unlink(disk, p)
  /\ localChanges' = localChanges + 1
  /\ UNCHANGED << drive, PROGRESS_FILE, progress, stats, stack, rootIdx, pc, res, runNo,
                  faults, interrupted, attempted, transferred, startDownloaded, startDisk,
                  rate_limited, failedIn, listFailed >>
  /\ UNCHANGED << gvars, cmd >>

Next ==
  \/ StartRun
  \/ StartRunCrash
  \/ ListPage
  \/ ProcessItem
  \/ Request
  \/ Write
  \/ Record
  \/ Interrupt
  \/ InterruptSave
  \/ RemoveLocalFile

Spec == Init /\ [][Next]_vars

\* --------------------------------------- trees with equal output paths

\* the characters main() replaces in a province name (line 320)
InvalidChars == {"<", ">", ":", "\"", "/", "\\", "|", "?", "*"}

\* re.sub(r'[<>:"/\\|?*]', "_", province_name), a name being its characters
Sanitize(name) == [i \in DOMAIN name |-> IF name[i] \in InvalidChars THEN "_" ELSE name[i]]

\* main()'s folders for the folder links of an index (lines 311-327)
FoldersOf(links) ==
  [i \in DOMAIN links |-> [id |-> links[i].id, province |-> Sanitize(links[i].name)]]

\* two files of one folder with the same name
SameName ==
  [roots |-> << [id |-> "R1", province |-> "p1"] >>,
   children |-> [f \in {"R1"} |-> << File("a", "x.pdf"), File("b", "x.pdf") >>]]

\* two folder links whose names differ in one replaced character
SameProvince ==
  [roots |-> FoldersOf(<< [id |-> "R1", name |-> << "p", "/", "1" >>],
                          [id |-> "R2", name |-> << "p", ":", "1" >>] >>),
   children |-> [f \in {"R1", "R2"} |->
      IF f = "R1" THEN << File("a", "x.pdf") >> ELSE << File("b", "x.pdf") >>]]

CollidingTrees == {SameName, SameProvince}

InitColliding ==
  /\ drive \in CollidingTrees
  /\ InitLocal

SpecColliding == InitColliding /\ [][Next]_vars

\* ------------------------------------------------- the progress store alone

\* the ids and the entries the stored files below are made of
StoredIds == FileIds(SubFirst)

StoredFailed == { [id |-> i, path |-> << i >>, province |-> "p1", error |-> "Timeout"] : i \in StoredIds }

StoredErrors == { << >>, << [handler |-> "list", folder_id |-> "R1", province |-> "p1",
                             error |-> "HttpError 500", item |-> ""] >> }

\* the progress files a run can find: none, one cut short, one written by
\* save_progress, one of the older format ("failed" an array)
StoredFiles ==
  {AbsentFile, TornFile} \cup
  { [kind |-> "json",
     data |-> [downloaded |-> SetToSeq(D),
               failed |-> [is_list |-> l, entries |-> F],
               errors |-> E]]
    : D \in SUBSET StoredIds, l \in BOOLEAN, F \in SUBSET StoredFailed, E \in StoredErrors }

\* is the stored "failed" an array
IsLegacy(file) == file.kind = "json" /\ file.data.failed.is_list

InitStore ==
  /\ drive = SubFirst
  /\ disk = << >>
  /\ PROGRESS_FILE \in StoredFiles
  /\ progress = ZeroProgress
  /\ stats = ZeroStats
  /\ stack = << >>
  /\ rootIdx = 1
  /\ pc = "idle"
  /\ res = NoRes
  /\ runNo = 0
  /\ faults = 0
  /\ localChanges = 0
  /\ interrupted = FALSE
  /\ attempted = {}
  /\ transferred = {}
  /\ startDownloaded = {}
  /\ startDisk = << >>
  /\ rate_limited = FALSE
  /\ failedIn = ""
  /\ listFailed = FALSE
  /\ cmd = NoCmd
  /\ InitFolderEngine

\* main() without --reset loads the progress (line 264); json.load raising
\* ends the process
StoreLoad ==
  /\ pc \notin {"loaded", "running"}
  /\ runNo < MaxRuns
  /\ runNo' = runNo + 1
  /\ cmd' \in { c \in Commands : c.command # "reset" }
  /\ IF Unreadable(PROGRESS_FILE)
       THEN pc' = "crashed" /\ UNCHANGED progress
       ELSE pc' = "loaded" /\ progress' = load_progress(PROGRESS_FILE)
  /\ UNCHANGED << drive, disk, PROGRESS_FILE, stats, stack, rootIdx, res, faults,
                  localChanges, interrupted, attempted, transferred, startDownloaded,
                  startDisk, rate_limited, failedIn, listFailed >>
  /\ UNCHANGED gvars

\* the run records an id and saves (lines 123, 170-172), or ends
StoreRecord ==
  /\ pc = "running"
  /\ \/ \E id \in StoredIds \ progress.downloaded :
          /\ progress' = [progress EXCEPT !.downloaded = @ \cup {id}]
          /\ PROGRESS_FILE' = save_progress(progress')
          /\ pc' = "running"
     \/ /\ pc' = "done"
        /\ UNCHANGED << progress, PROGRESS_FILE >>
  /\ UNCHANGED << drive, disk, stats, stack, rootIdx, res, runNo, faults,
                  localChanges, interrupted, attempted, transferred, startDownloaded,
                  startDisk, rate_limited, failedIn, listFailed >>
  /\ UNCHANGED << gvars, cmd >>

\* --reset that leaves the file where it is
ResetFile_Keep(file) == file

\* if PROGRESS_FILE.exists(): PROGRESS_FILE.unlink()  (lines 259-260)
ResetFile(file) == IF file.kind # "absent" THEN AbsentFile ELSE file

\* main() with --reset (lines 258-262)
StoreReset ==
  /\ pc \notin {"loaded", "running"}
  /\ runNo < MaxRuns
  /\ runNo' = runNo + 1
  /\ cmd' \in { c \in Commands : c.command = "reset" }
  /\ PROGRESS_FILE' = ResetFile(PROGRESS_FILE)
  /\ pc' = "reset"
  /\ UNCHANGED << drive, disk, progress, stats, stack, rootIdx, res, faults,
                  localChanges, interrupted, attempted, transferred, startDownloaded,
                  startDisk, rate_limited, failedIn, listFailed >>
  /\ UNCHANGED gvars

\* the progress file after --status, were the command to save what it loaded
StatusFile_Saved(file, p) == save_progress(p)

\* the progress file after --status: lines 266-283 only print
StatusFile(file, p) == file

\* main() with --status, after the load (lines 266-283)
StoreStatus ==
  /\ pc = "loaded"
  /\ cmd.command = "status"
  /\ PROGRESS_FILE' = StatusFile(PROGRESS_FILE, progress)
  /\ pc' = "status"
  /\ UNCHANGED << drive, disk, progress, stats, stack, rootIdx, res, runNo, faults,
                  localChanges, interrupted, attempted, transferred, startDownloaded,
                  startDisk, rate_limited, failedIn, listFailed >>
  /\ UNCHANGED << gvars, cmd >>

\* a run that goes on whatever is missing
Preconditions_None(c) == TRUE

\* the run has an API key (line 286) and a folder: --folder or the index file
\* (lines 300-303)
Preconditions(c) == c.api_key /\ (c.folder \/ c.index)

\* main() between the load and the loop over folders (lines 285-331)
StoreCheck ==
  /\ pc = "loaded"
  /\ cmd.command = "run"
  /\ pc' = IF Preconditions(cmd) THEN "running" ELSE "fatal"
  /\ UNCHANGED << drive, disk, PROGRESS_FILE, progress, stats, stack, rootIdx, res, runNo,
                  faults, localChanges, interrupted, attempted, transferred,
                  startDownloaded, startDisk, rate_limited, failedIn, listFailed >>
  /\ UNCHANGED << gvars, cmd >>

NextStore ==
  \/ StoreStatus
  \/ StoreCheck
  \/ StoreLoad
  \/ StoreRecord
  \/ StoreReset

SpecStore == InitStore /\ [][NextStore]_vars

\* ------------------------------------------ fetch_ect_pdfs.py: download_pdfs

\* load_progress of fetch_ect_pdfs.py (lines 276-281)
gd_load_progress(file) == IF file.kind = "json" THEN file.data ELSE ZeroFolderProgress

\* the file save_progress of fetch_ect_pdfs.py writes (lines 287-289)
gd_progress_file(p) == [kind |-> "json", data |-> p]

\* load_errors (lines 292-297)
load_errors(file) == IF file.kind = "json" THEN file.errors ELSE << >>

\* the file save_errors writes (lines 304-305)
gd_errors_file(e) == [kind |-> "json", errors |-> e]

\* the entry log_error appends (lines 311-318)
FolderError(folder_id, type, message) ==
  [type |-> type, folder_id |-> folder_id, message |-> message]

\* log_error that keeps the new entry alone
log_error_Replace(errors, entry) == << entry >>

\* errors["errors"].append(entry) of log_error (line 318)
log_error(errors, entry) == Append(errors, entry)

GRunning == gd_pc \notin {"idle", "done", "interrupted", "crashed"}

\* dict.get(key, default) on a loaded JSON object
Get(data, key, default) == IF key \in DOMAIN data THEN data[key] ELSE default

\* the progress file after a run of download_drive_api.py that found the given
\* file and recorded id: load_progress (lines 60-68) keeps every key of the
\* stored object, process_folder reads "downloaded" with a default and sets
\* "errors" and "failed" when they are missing (lines 123-127), save_progress
\* dumps the whole dict (lines 71-74)
DriveApiFile(file, id) ==
  LET data   == IF file.kind = "json" THEN file.data ELSE json_dump(ZeroProgress)
      failed == Get(data, "failed", [is_list |-> FALSE, entries |-> {}])
      d      == SetToSeq(Range(Get(data, "downloaded", << >>)) \cup {id})
      f      == [is_list |-> FALSE, entries |-> IF failed.is_list THEN {} ELSE failed.entries]
      e      == Get(data, "errors", << >>)
  IN  [kind |-> "json",
       data |-> IF "completed_folders" \in DOMAIN data
                  THEN [completed_folders |-> data.completed_folders,
                        downloaded |-> d, failed |-> f, errors |-> e]
                  ELSE [downloaded |-> d, failed |-> f, errors |-> e]]

\* between two runs of download_pdfs the user runs download_drive_api.py, which
\* records a file and saves the progress
DriveApiRun ==
  /\ ~GRunning
  /\ \E id \in FileIds(drive) :
       /\ id \notin Range(Get(gd_load_progress(PROGRESS_FILE), "downloaded", << >>))
       /\ PROGRESS_FILE' = DriveApiFile(PROGRESS_FILE, id)
  /\ UNCHANGED << ERRORS_FILE, progress_lock, gd_pc, gd_progress, gd_errors, gd_tasks,
                  gd_task, gd_result, gd_totals, runNo, faults, dvars >>

\* the places where the thread is about to enter "with progress_lock:"
LockPcs == {"retry_lock", "mark_lock", "mark_save_lock", "log_lock", "final_p_lock", "final_e_lock",
            "int_p_lock", "int_e_lock"}

\* the places inside save_progress / save_errors, the lock held, the file open
WritePcs == {"retry_write", "mark_save_write", "log_write", "final_p_write", "final_e_write",
             "int_p_write", "int_e_write"}

InitFolders ==
  /\ Init
  /\ drive = Flat

\* download_pdfs after its set-up: progress['completed_folders'] of line 596
\* raises KeyError when the loaded object has no such key; else the loop, or
\* the return without a task (lines 636-646)
ToLoop(p, tasks) ==
  IF "completed_folders" \notin DOMAIN p THEN "crashed"
  ELSE IF tasks = << >> THEN "done" ELSE "task"

\* download_pdfs up to its loop (lines 573-646); with retry_errors the log is
\* replaced by an empty one and saved first (lines 588-590)
GStart ==
  /\ ~GRunning
  /\ runNo < MaxRuns
  /\ runNo' = runNo + 1
  /\ \E retry_errors \in BOOLEAN :
       LET p == gd_load_progress(PROGRESS_FILE)
           t == SelectSeq(IndexFolders,
                          LAMBDA id : id \notin Range(Get(p, "completed_folders", << >>)))
       IN  /\ gd_progress' = p
           /\ gd_tasks' = t
           /\ gd_pc' = IF retry_errors THEN "retry_lock" ELSE ToLoop(p, t)
           /\ gd_errors' = IF retry_errors THEN << >> ELSE load_errors(ERRORS_FILE)
  /\ gd_task' = 1
  /\ gd_result' = ZeroResult
  /\ gd_totals' = ZeroTotals
  /\ UNCHANGED << PROGRESS_FILE, ERRORS_FILE, progress_lock, faults, dvars >>

\* the loop of download_pdfs goes on after download_worker returned r
\* (lines 657-666): count the result, next task or the final save
AfterWorker(r) ==
  /\ gd_totals' = IF r.failed > 0
                    THEN [gd_totals EXCEPT !.failed = @ + 1]
                    ELSE [gd_totals EXCEPT !.downloaded = @ + r.downloaded]
  /\ IF gd_task < Len(gd_tasks)
       THEN gd_task' = gd_task + 1 /\ gd_pc' = "task"
       ELSE gd_task' = gd_task /\ gd_pc' = "final_p_lock"

\* download_worker that marks every folder it attempted
ShouldMark_Always(r) == TRUE

\* if downloaded > 0 or failed == 0  (line 516)
ShouldMark(r) == r.downloaded > 0 \/ r.failed = 0

\* download_worker once download_folder_with_gdown returned r (lines 515-528):
\* mark the folder as completed, or return to the loop
WorkerReturns(r) ==
  IF ShouldMark(r)
    THEN gd_pc' = "mark_lock" /\ UNCHANGED << gd_task, gd_totals >>
    ELSE AfterWorker(r)

\* download_worker up to the result of download_folder_with_gdown (lines
\* 499-516, 470-496): files, no file and no error, or an error that is logged
GWorker ==
  /\ gd_pc = "task"
  /\ LET id == gd_tasks[gd_task] IN
     IF id \in Range(gd_progress.completed_folders)
       THEN /\ gd_totals' = [gd_totals EXCEPT !.skipped = @ + 1]
            /\ IF gd_task < Len(gd_tasks)
                 THEN gd_task' = gd_task + 1 /\ gd_pc' = "task"
                 ELSE gd_task' = gd_task /\ gd_pc' = "final_p_lock"
            /\ UNCHANGED << gd_result, gd_errors, faults >>
       ELSE \E outcome \in {"files", "none"} \cup (IF faults < MaxFaults
                                                     THEN {"Timeout"} ELSE {}) :
              /\ gd_result' = CASE outcome = "files" -> [downloaded |-> 2, failed |-> 0]
                                [] outcome = "none"  -> [downloaded |-> 0, failed |-> 0]
                                [] OTHER             -> [downloaded |-> 0, failed |-> 1]
              /\ IF outcome = "Timeout"
                   THEN /\ gd_errors' = log_error(gd_errors, FolderError(id, "timeout", outcome))
                        /\ gd_pc' = "log_lock"
                        /\ faults' = faults + 1
                        /\ UNCHANGED << gd_task, gd_totals >>
                   ELSE /\ WorkerReturns(gd_result')
                        /\ UNCHANGED << gd_errors, faults >>
  /\ UNCHANGED << PROGRESS_FILE, ERRORS_FILE, progress_lock, gd_progress, gd_tasks,
                  runNo, dvars >>

\* threading.Lock.acquire() returns only when the lock is free (line 46)
Acquirable(lock, at) == lock = "free"

\* "with progress_lock:" is entered (lines 287, 303, 517)
GAcquire ==
  /\ gd_pc \in LockPcs
  /\ Acquirable(progress_lock, gd_pc)
  /\ progress_lock' = "held"
  /\ IF gd_pc = "mark_lock"
       THEN /\ gd_progress' = [gd_progress EXCEPT
                                 !.completed_folders = Append(@, gd_tasks[gd_task])]
            /\ gd_pc' = "mark_save_lock"
       ELSE /\ gd_pc' = CASE gd_pc = "retry_lock"     -> "retry_write"
                          [] gd_pc = "mark_save_lock" -> "mark_save_write"
                          [] gd_pc = "log_lock"       -> "log_write"
                          [] gd_pc = "final_p_lock"   -> "final_p_write"
                          [] gd_pc = "final_e_lock"   -> "final_e_write"
                          [] gd_pc = "int_p_lock"     -> "int_p_write"
                          [] OTHER                    -> "int_e_write"
            /\ UNCHANGED gd_progress
  /\ UNCHANGED << PROGRESS_FILE, ERRORS_FILE, gd_errors, gd_tasks, gd_task, gd_result,
                  gd_totals, runNo, faults, dvars >>

\* the body of save_progress / save_errors: the file is written, the lock
\* released, the caller goes on (lines 288-289, 304-305)
GWrite ==
  /\ gd_pc \in WritePcs
  /\ progress_lock' = "free"
  /\ IF gd_pc \in {"mark_save_write", "final_p_write", "int_p_write"}
       THEN PROGRESS_FILE' = gd_progress_file(gd_progress) /\ UNCHANGED ERRORS_FILE
       ELSE ERRORS_FILE' = gd_errors_file(gd_errors) /\ UNCHANGED PROGRESS_FILE
  /\ IF gd_pc = "log_write"
       THEN WorkerReturns(gd_result)
     ELSE IF gd_pc = "mark_save_write"
       THEN AfterWorker(gd_result)
       ELSE /\ gd_pc' = CASE gd_pc = "retry_write"   -> ToLoop(gd_progress, gd_tasks)
                          [] gd_pc = "final_p_write" -> "final_e_lock"
                          [] gd_pc = "final_e_write" -> "done"
                          [] gd_pc = "int_p_write"   -> "int_e_lock"
                          [] OTHER                   -> "interrupted"
            /\ UNCHANGED << gd_task, gd_totals >>
  /\ UNCHANGED << gd_progress, gd_errors, gd_tasks, gd_result, runNo, faults, dvars >>

\* KeyboardInterrupt in the loop of download_pdfs (lines 668-673): the with
\* blocks it unwinds release the lock, the handler saves both files
GInterrupt ==
  /\ gd_pc \in {"task", "mark_lock", "mark_save_lock", "mark_save_write", "log_lock",
                "log_write"}
  /\ progress_lock' = "free"
  /\ gd_pc' = "int_p_lock"
  /\ UNCHANGED << PROGRESS_FILE, ERRORS_FILE, gd_progress, gd_errors, gd_tasks, gd_task,
                  gd_result, gd_totals, runNo, faults, dvars >>

\* the steps of a run of download_pdfs, the user's interrupt apart
GStep == GWorker \/ GAcquire \/ GWrite

NextFolders ==
  \/ GStart
  \/ DriveApiRun
  \/ GWorker
  \/ GAcquire
  \/ GWrite
  \/ GInterrupt

SpecFolders == InitFolders /\ [][NextFolders]_vars

\* ------------------------------------------------------------ the targets

\* the files process_folder reaches below a folder, each with its output path
RECURSIVE TargetsUnder(_, _, _)
TargetsUnder(folder_id, province, path) ==
  LET items == drive.children[folder_id] IN
  UNION { IF items[i].folder
            THEN TargetsUnder(items[i].id, province, Append(path, items[i].name))
            ELSE { [id |-> items[i].id,
                    output_path |-> << province >> \o Append(path, items[i].name)] }
          : i \in DOMAIN items }

Targets ==
  UNION { TargetsUnder(drive.roots[i].id, drive.roots[i].province, << >>)
          : i \in DOMAIN (drive.roots) }

\* the progress a load of the file returns
Saved == load_progress(PROGRESS_FILE)

Balance(s) == s.total - (s.downloaded + s.skipped + s.failed)

\* --------------------------------------------------------------- the claims

\* C1: in the saved progress no id is both in downloaded and in failed.
C1_XorInvariant ==
  \A id \in Saved.downloaded : ~InFailed(Saved.failed, id)

\* C2: once a download outcome of a run is classified as rate-limited, the run
\* issues no further transfer request.
C2_RateLimitAbort == [][rate_limited => attempted' \subseteq attempted]_vars

\* C3: a run that follows a run interrupted after some transfer completed, and
\* finishes with every transfer of both succeeding (every target complete on
\* disk), leaves every listed file id in the saved downloaded set.
C3_Resumability ==
  (/\ pc = "done" /\ interrupted
   /\ \E t \in Targets : Exists(startDisk, t.output_path) /\ startDisk[t.output_path] = "complete"
   /\ faults = 0 /\ localChanges = 0
   /\ \A t \in Targets : Exists(disk, t.output_path) /\ disk[t.output_path] = "complete")
    => Saved.downloaded = FileIds(drive)

\* C4: a run issues no transfer request for a file that was on disk with
\* non-zero size when the run started; a run that starts with every target on
\* disk and lists every folder transfers nothing and counts every file skipped.
C4_NoRetransfer ==
  /\ \A t \in Targets : ExistsNonEmpty(startDisk, t.output_path) => t.id \notin attempted
  /\ (pc = "done" /\ ~listFailed
        /\ \A t \in Targets : ExistsNonEmpty(startDisk, t.output_path))
       => /\ attempted = {}
          /\ stats.downloaded = 0
          /\ stats.skipped = Cardinality(FileIds(drive))
          /\ stats.total = Cardinality(FileIds(drive))

C4_Witness ==
  /\ pc = "done" /\ runNo >= 2 /\ ~listFailed
  /\ \A t \in Targets : ExistsNonEmpty(startDisk, t.output_path)
  /\ stats.skipped = Cardinality(FileIds(drive))

\* C5: a second run with nothing changed since a first complete run leaves as
\* many ids in the saved downloaded set as the first run left.
C5_SameCount ==
  (pc = "done" /\ runNo >= 2 /\ faults = 0 /\ ~interrupted /\ localChanges = 0)
    => Cardinality(Saved.downloaded) = Cardinality(startDownloaded)

\* C6: no transfer request is issued for an id that was in the saved downloaded
\* set when the run started, and a run that lists every folder counts each
\* such target as skipped.
C6_DownloadedSkipped ==
  /\ \A id \in startDownloaded : id \notin attempted
  /\ (pc = "done" /\ ~listFailed)
       => stats.skipped >= Cardinality(startDownloaded \cap FileIds(drive))

C6_Witness ==
  /\ pc = "done" /\ ~listFailed
  /\ attempted # {}
  /\ \E t \in Targets : /\ t.id \in startDownloaded
                        /\ ~Exists(startDisk, t.output_path)
                        /\ Len(t.output_path) > 2

\* C7: at the end of a run whose listings all succeeded, every file counted in
\* total is counted in exactly one of downloaded, skipped, failed.
C7_CountersExact ==
  (pc = "done" /\ ~listFailed) => Balance(stats) = 0

\* C8: when download_file reports a failure after a timeout or an exception,
\* no file is at the output path.
C8_PartialWriteSafety ==
  (pc = "record" /\ res.error \in {"Timeout", "Exception"})
    => ~Exists(disk, OutputPath(Top(stack)))

C8_Witness ==
  pc = "record" /\ res.error = "Timeout" /\ failedIn = "write"

\* C9: between and after runs every non-empty file under the output
\* directory is a completely transferred one.
C9_NoTruncatedFile ==
  Stopped => \A p \in DOMAIN disk : disk[p] # "partial"

\* C10: when a run exits on a user interrupt, every id whose transfer completed
\* in the run is in the saved downloaded set.
C10_InterruptKeepsCompleted ==
  pc = "interrupted" => transferred \subseteq Saved.downloaded

\* C11: a save interrupted at any point leaves a progress file that a load can
\* read (the progress before the save or after it): no run ends in load_progress.
C11_AtomicSave ==
  ~Unreadable(PROGRESS_FILE) /\ pc # "crashed"

\* C12: a run of download_pdfs that has not ended can take a step of its own:
\* no worker waits for ever to record its folder, so a run whose folder
\* downloads succeed gets to its final save and its summary.
C12_NoWorkerBlocks ==
  GRunning => ENABLED GStep

\* C13: every write of the progress file or of the errors file happens while
\* progress_lock is held.
C13_WritesUnderLock ==
  [][(PROGRESS_FILE' # PROGRESS_FILE \/ ERRORS_FILE' # ERRORS_FILE)
       => progress_lock = "held"]_vars

\* C14: a rate-limited (429) error of a listing request, at any depth, ends the
\* run at once: nothing is listed or transferred after it.
C14_ListRateLimitAborts ==
  [][ListStep("HttpError 429") => pc' = "aborted"]_vars

\* C15: a listing error that is not a rate limit appends one entry to the
\* errors log and saves it, ends the enumeration of that folder only, keeps the
\* saved downloaded and failed records, and the run goes on with what remains.
C15_ListErrorLocal ==
  [][ListStep("HttpError 500") =>
       /\ Len(progress'.errors) = Len(progress.errors) + 1
       /\ SubSeq(progress'.errors, 1, Len(progress.errors)) = progress.errors
       /\ progress'.errors[Len(progress'.errors)].folder_id = Top(stack).folder_id
       /\ progress'.errors[Len(progress'.errors)].handler = "list"
       /\ ~Unreadable(PROGRESS_FILE') /\ Saved'.errors = progress'.errors
       /\ Saved'.downloaded = Saved.downloaded
       /\ Saved'.failed = Saved.failed
       /\ stats' = stats
       /\ \A i \in DOMAIN stack' : stack'[i].folder_id # Top(stack).folder_id
       /\ pc' \in {"list", "item", "done"}
       /\ pc' = "done" => rootIdx = Len(drive.roots)
       /\ (Len(stack) > 1 /\ stack[Len(stack) - 1].idx < Len(drive.children[stack[Len(stack) - 1].folder_id]))
            => /\ Len(stack') = Len(stack) - 1
               /\ pc' = "item"
               /\ Top(stack').idx = stack[Len(stack) - 1].idx + 1
     ]_vars

C15_Witness ==
  /\ Running /\ listFailed
  /\ Len(stack) >= 1
  /\ Len(progress.errors) > 0
  /\ progress.errors[Len(progress.errors)].handler = "list"
  /\ progress.errors[Len(progress.errors)].folder_id = "S"
  /\ Saved.errors = progress.errors
  /\ Saved.downloaded # {}

\* C16: a transfer failure that is not a rate limit is saved in failed under the
\* item's id with its reason, path and province, the run goes on, and the item
\* is left so that the next run requests it again.
C16_FailureRecorded ==
  /\ [][(pc = "record" /\ ~res.success /\ ~HasRate(res.error) /\ pc' # "interrupted") =>
          LET f  == Top(stack)
              id == CurItem(f).id
          IN  /\ { e \in Saved'.failed : e.id = id }
                   = { [id |-> id, path |-> ItemPath(f), province |-> f.province,
                        error |-> res.error] }
              /\ pc' \in {"item", "list", "done"}
              /\ pc' = "done" => rootIdx = Len(drive.roots)
              /\ id \notin Saved'.downloaded
              /\ ~ExistsNonEmpty(disk', OutputPath(f))
       ]_vars
  /\ [][(/\ pc = "item" /\ ~CurItem(Top(stack)).folder
         /\ InFailed(progress.failed, CurItem(Top(stack)).id)
         /\ CurItem(Top(stack)).id \notin startDownloaded
         /\ ~ExistsNonEmpty(disk, OutputPath(Top(stack)))
         /\ pc' # "interrupted")
          => pc' = "req" /\ stack' = stack
       ]_vars

C16_Witness ==
  /\ pc = "req" /\ runNo >= 2
  /\ \E e \in Saved.failed : /\ e.id = CurItem(Top(stack)).id
                             /\ e.error \in {"Access denied", "Timeout", "Empty file"}
                             /\ e.path = ItemPath(Top(stack))

\* C17: a call of download_file that the user does not interrupt ends with a
\* result handed to process_folder, whatever fails while the directory is
\* prepared, the request made or the file written.
C17_FetchNeverRaises ==
  [][(pc \in {"req", "write"} /\ pc' # "interrupted") => pc' \in {"write", "record"}]_vars

\* C18: loading a stored progress whose failed field is a list does not raise and
\* returns failed empty, downloaded and errors as stored.
C18_LegacyMigration ==
  IsLegacy(PROGRESS_FILE)
    => /\ pc # "crashed"
       /\ pc = "loaded" => /\ progress.failed = {}
                           /\ progress.downloaded = Range(PROGRESS_FILE.data.downloaded)
                           /\ progress.errors = PROGRESS_FILE.data.errors

C18_Witness ==
  /\ pc = "loaded" /\ IsLegacy(PROGRESS_FILE)
  /\ PROGRESS_FILE.data.failed.entries # {}
  /\ progress.downloaded # {}
  /\ progress.errors # << >>

C20_ResetEmpties ==
  pc = "reset" => /\ ~Unreadable(PROGRESS_FILE)
                  /\ load_progress(PROGRESS_FILE) = ZeroProgress
                  /\ PROGRESS_FILE.kind = "absent"

C20_Witness ==
  pc = "reset" /\ progress.downloaded # {} /\ progress.errors # << >>

\* C21: no step of an invocation with --status changes the progress file, the
\* older format included, and none lists a folder or requests a file.
C21_StatusReadOnly ==
  [][cmd'.command = "status" =>
       /\ PROGRESS_FILE' = PROGRESS_FILE
       /\ disk' = disk /\ attempted' = attempted /\ stack' = << >>
       /\ pc' \in {"loaded", "status", "crashed"}]_vars

C21_Witness ==
  /\ pc = "status" /\ IsLegacy(PROGRESS_FILE)
  /\ PROGRESS_FILE.data.failed.entries # {}
  /\ progress.failed = {}

\* C22: a run without an API key, or without the index file when --folder is
\* not given, ends without a change of the progress file and without reaching
\* the loop over folders; --status and --reset do not ask for the key.
C22_FatalPreconditions ==
  /\ [][(cmd'.command = "run" /\ ~(cmd'.api_key /\ (cmd'.folder \/ cmd'.index))) =>
          /\ PROGRESS_FILE' = PROGRESS_FILE
          /\ disk' = disk /\ attempted' = attempted /\ stack' = << >>
          /\ pc' \in {"loaded", "fatal", "crashed"}]_vars
  /\ [][(pc = "loaded" /\ cmd.command = "run" /\ ~(cmd.api_key /\ (cmd.folder \/ cmd.index)))
          => pc' = "fatal"]_vars
  /\ [][(pc = "loaded" /\ cmd.command = "status") => pc' = "status"]_vars
  /\ [](pc = "fatal" => cmd.command = "run")
  /\ []((cmd.command = "reset" /\ runNo > 0) => pc = "reset")

C22_Witness ==
  /\ pc = "fatal" /\ ~cmd.api_key /\ cmd.index
  /\ PROGRESS_FILE.kind = "json" /\ PROGRESS_FILE.data.downloaded # << >>

\* C23: no two targets of a listing pass have the same local path, so the
\* existence check of an item finds only a file written for that item: in a
\* first run every id recorded as downloaded has been requested.
C23_OwnFileOnly ==
  runNo = 1 => Saved.downloaded \subseteq attempted

\* is s an initial part of t
IsPrefix(s, t) == Len(s) <= Len(t) /\ SubSeq(t, 1, Len(s)) = s

C25_AddedHasFile ==
  [][(~Unreadable(PROGRESS_FILE) /\ ~Unreadable(PROGRESS_FILE')) =>
       \A id \in Saved'.downloaded \ Saved.downloaded :
         /\ \E t \in Targets : t.id = id /\ ExistsNonEmpty(disk', t.output_path)
         /\ id = CurItem(Top(stack)).id
         /\ \/ pc = "record" /\ res.success
            \/ pc = "item" /\ OnDisk(disk, OutputPath(Top(stack)))]_vars

C25_Witness ==
  /\ ~Unreadable(PROGRESS_FILE)
  /\ \E id \in Saved.downloaded \cap transferred :
       \E t \in Targets : t.id = id /\ ExistsNonEmpty(disk, t.output_path)
  /\ \E id \in Saved.downloaded \ transferred :
       \E t \in Targets : t.id = id /\ disk[t.output_path] = "partial"

\* C26: when the work on a file ends and the loop goes on, the progress file
\* holds what the run knows: the id among the downloaded ones after a transfer
\* reported as successful or after the existence check found the file, the
\* failed entry with the reason after a failure, the rate limit included.
C26_DurableBeforeNext ==
  /\ [][(pc = "record" /\ pc' # "interrupted") =>
          /\ ~Unreadable(PROGRESS_FILE')
          /\ Saved' = progress'
          /\ IF res.success
               THEN CurItem(Top(stack)).id \in Saved'.downloaded
               ELSE \E e \in Saved'.failed :
                      e.id = CurItem(Top(stack)).id /\ e.error = res.error]_vars
  /\ [][(/\ pc = "item" /\ pc' # "interrupted"
         /\ ~CurItem(Top(stack)).folder
         /\ ~AlreadyDownloaded(Top(stack), CurItem(Top(stack)).id)
         /\ OnDisk(disk, OutputPath(Top(stack)))) =>
          /\ ~Unreadable(PROGRESS_FILE')
          /\ Saved' = progress'
          /\ CurItem(Top(stack)).id \in Saved'.downloaded]_vars

C26_Witness ==
  /\ pc = "req" /\ ~Unreadable(PROGRESS_FILE)
  /\ \E e \in Saved.failed : e.error = "Rate limited" /\ e.id # CurItem(Top(stack)).id
  /\ Saved.downloaded # {}

\* the folder ids the progress file holds as completed
StoredCompleted == Range(Get(gd_load_progress(PROGRESS_FILE), "completed_folders", << >>))

\* C27: download_worker appends the folder of its task to completed_folders
\* when, and only when, the attempt reported no failure; after a failed
\* attempt the list is left as it is. A run's tasks are the folders of the
\* index that the stored list does not hold, and no folder of the list is
\* attempted.
C27_MarkOnlyWithoutFailure ==
  /\ [](gd_pc \in {"mark_lock", "mark_save_lock", "mark_save_write"} => gd_result.failed = 0)
  /\ [][(gd_pc = "task" /\ gd_pc' \in {"mark_lock", "log_lock"}) =>
          /\ gd_tasks[gd_task] \notin Range(gd_progress.completed_folders)
          /\ gd_tasks[gd_task] \notin StoredCompleted
          /\ (gd_result'.failed = 0 <=> gd_pc' = "mark_lock")]_vars
  /\ [][(gd_pc \in {"log_lock", "log_write"} /\ gd_pc' \notin {"int_p_lock"}) =>
          /\ gd_pc' \in {"log_write", "task", "final_p_lock"}
          /\ gd_progress' = gd_progress]_vars
  /\ [][(runNo' = runNo /\ gd_progress' # gd_progress) =>
          /\ gd_pc = "mark_lock" /\ gd_result.failed = 0
          /\ gd_progress'.completed_folders =
               Append(gd_progress.completed_folders, gd_tasks[gd_task])]_vars
  /\ [][(runNo' # runNo /\ gd_pc' # "crashed") =>
          gd_tasks' = SelectSeq(IndexFolders, LAMBDA id : id \notin StoredCompleted)]_vars
  /\ [][StoredCompleted \subseteq StoredCompleted']_vars

C27_Witness ==
  /\ runNo = 2 /\ gd_pc = "task" /\ gd_task = 1
  /\ StoredCompleted = {"F2"}
  /\ gd_tasks = << "F1", "F3" >>
  /\ \E i \in DOMAIN load_errors(ERRORS_FILE) : load_errors(ERRORS_FILE)[i].folder_id = "F1"

\* C28: the step that records the result of a transfer, whatever the class of
\* a failure, leaves the errors log as it is, in memory and in the file.
C28_NoErrorsFromItems ==
  [][(pc = "record" /\ ~Unreadable(PROGRESS_FILE')) =>
       /\ progress'.errors = progress.errors
       /\ Saved'.errors = progress.errors]_vars

\* C29: within a run no save takes an id out of the stored downloaded set.
C29_DownloadedGrows ==
  [][(runNo' = runNo /\ ~Unreadable(PROGRESS_FILE) /\ ~Unreadable(PROGRESS_FILE')) =>
       Saved.downloaded \subseteq Saved'.downloaded]_vars

\* C30: a run of download_pdfs that finds a progress file saved by
\* download_drive_api.py finds the key it reads and does not end with an error.
C30_OtherEngineFileLoads ==
  gd_pc # "crashed"

====
